---- MODULE Spec2Model ----
(***************************************************************************)
(* Model of password_generator.py: build_pool, generate_password and the   *)
(* command-line driver main.                                               *)
(*                                                                         *)
(* A Python string is a sequence of characters (one-character TLA+         *)
(* strings); a Python list of strings is a sequence of such sequences.     *)
(* secrets.SystemRandom is a nondeterministic choice.                      *)
(***************************************************************************)
EXTENDS Integers, Sequences, FiniteSets, TLC

\* Largest password length explored (lengths range over -1..MaxLength).
MaxLength == 4

\* Largest value of the -n / --num option explored (num ranges over -1..MaxNum).
MaxNum == 2

\* generate_password rejects lengths below this.
MIN_LENGTH == 4

VARIABLES
    alphabets,       \* class name -> the literal alphabet appended by build_pool
    num,             \* args.num
    length,          \* length passed to generate_password
    use_lower, use_upper, use_digits, use_symbols,
    no_ambiguous,    \* args.no_ambiguous, resp. no_amb of the fallback
    mpc,             \* position of main
    calls,           \* iterations of main's for loop started
    printed,         \* passwords printed on standard output
    stderr,          \* messages printed on standard error, in order
    fallbacks,       \* times the interactive fallback was entered
    exit_code,       \* process exit status (-1 while running)
    pc,              \* position inside generate_password ("idle": not in a call)
    pools,           \* generate_password: pools
    pool_all,        \* generate_password: pool_all
    password_chars,  \* generate_password: password_chars
    k,               \* index of the for loop over pools
    guaranteed,      \* len(password_chars) when the for loop ended
    draws,           \* calls of sysrand.choice made in this call
    pool_built,      \* build_pool was called in this call
    err,             \* message of the ValueError raised ("" if none)
    ret              \* string returned by generate_password

vars == <<alphabets, num, length, use_lower, use_upper, use_digits, use_symbols,
          no_ambiguous, mpc, calls, printed, stderr, fallbacks, exit_code,
          pc, pools, pool_all, password_chars, k, guaranteed, draws,
          pool_built, err, ret>>

config == <<length, use_lower, use_upper, use_digits, use_symbols, no_ambiguous>>
frame == <<pools, pool_all, password_chars, k, guaranteed, draws, pool_built, err, ret>>
mainvars == <<mpc, calls, printed, stderr, fallbacks, exit_code>>

----------------------------------------------------------------------------
\* Constants of the program

Range(s) == {s[i] : i \in 1..Len(s)}

AMBIGUOUS ==
    <<"I", "l", "1", "O", "0", "|", "`", "'", "\"", "(", ")", "{", "}",
      "[", "]", "<", ">", ":", ";", ",", ".", "~">>

\* the characters of AMBIGUOUS, for the tests "ch not in AMBIGUOUS"
AmbiguousChars == Range(AMBIGUOUS)

ascii_lowercase ==
    <<"a", "b", "c", "d", "e", "f", "g", "h", "i", "j", "k", "l", "m",
      "n", "o", "p", "q", "r", "s", "t", "u", "v", "w", "x", "y", "z">>

ascii_uppercase ==
    <<"A", "B", "C", "D", "E", "F", "G", "H", "I", "J", "K", "L", "M",
      "N", "O", "P", "Q", "R", "S", "T", "U", "V", "W", "X", "Y", "Z">>

digits == <<"0", "1", "2", "3", "4", "5", "6", "7", "8", "9">>

symbols ==
    <<"!", "@", "#", "$", "%", "^", "&", "*", "_", "-", "+", "=", "?", "/", "\\">>

Classes == <<"lower", "upper", "digits", "symbols">>

ShippedAlphabets ==
    [lower |-> ascii_lowercase, upper |-> ascii_uppercase,
     digits |-> digits, symbols |-> symbols]

ERR_LENGTH == "Length should be at least 4."
ERR_SELECT == "Select at least one character set (lower/upper/digits/symbols)."
ERR_EMPTY == "Character pool became empty after removing ambiguous characters."

----------------------------------------------------------------------------
\* Pure parts of build_pool and generate_password

\* "".join(strs)
RECURSIVE Join(_)
Join(strs) == IF strs = <<>> THEN <<>> ELSE Head(strs) \o Join(Tail(strs))

\* Variant of RemoveAmbiguous with the test inverted (ch in AMBIGUOUS).
RemoveAmbiguous_inverted(s) == SelectSeq(s, LAMBDA ch : ch \in AmbiguousChars)

\* "".join(ch for ch in s if ch not in AMBIGUOUS)
RemoveAmbiguous(s) == SelectSeq(s, LAMBDA ch : ch \notin AmbiguousChars)

\* the four conditional appends of build_pool
SelectedPools(alph, lo, up, di, sy) ==
    (IF lo THEN <<alph.lower>> ELSE <<>>)
    \o (IF up THEN <<alph.upper>> ELSE <<>>)
    \o (IF di THEN <<alph.digits>> ELSE <<>>)
    \o (IF sy THEN <<alph.symbols>> ELSE <<>>)

\* Variant of Merged that never filters the merged pool.
Merged_unfiltered(ps, noamb) == Join(ps)

\* merged, as computed by build_pool
Merged(ps, noamb) == IF noamb THEN RemoveAmbiguous(Join(ps)) ELSE Join(ps)

\* Variant of build_pool without the "if not pools" check.
build_pool_nocheck(alph, lo, up, di, sy, noamb) ==
    LET ps == SelectedPools(alph, lo, up, di, sy)
        merged == Merged(ps, noamb)
    IN  IF noamb /\ merged = <<>>
        THEN [err |-> ERR_EMPTY, pools |-> <<>>, merged |-> <<>>]
        ELSE [err |-> "", pools |-> ps, merged |-> merged]

\* Variant of build_pool without the "if not merged" check.
build_pool_noempty(alph, lo, up, di, sy, noamb) ==
    LET ps == SelectedPools(alph, lo, up, di, sy)
        merged == Merged(ps, noamb)
    IN  IF ps = <<>>
        THEN [err |-> ERR_SELECT, pools |-> <<>>, merged |-> <<>>]
        ELSE [err |-> "", pools |-> ps, merged |-> merged]

\* build_pool: err is the message of the ValueError raised, "" on a return
build_pool(alph, lo, up, di, sy, noamb) ==
    LET ps == SelectedPools(alph, lo, up, di, sy)
        merged == Merged(ps, noamb)
    IN  IF ps = <<>>
        THEN [err |-> ERR_SELECT, pools |-> <<>>, merged |-> <<>>]
        ELSE IF noamb /\ merged = <<>>
        THEN [err |-> ERR_EMPTY, pools |-> <<>>, merged |-> <<>>]
        ELSE [err |-> "", pools |-> ps, merged |-> merged]

\* Variants of TooShort: "length <= 4" and "length < 3".
TooShort_le(len) == len <= MIN_LENGTH

TooShort_lt3(len) == len < MIN_LENGTH - 1

\* the guard "length < 4" of generate_password
TooShort(len) == len < MIN_LENGTH

\* candidates of the per-pool pick
Candidates(p, noamb) == IF noamb THEN RemoveAmbiguous(p) ELSE p

\* Variant of NeedsFill: "len(password_chars) <= length".
NeedsFill_le(chars, len) == Len(chars) <= len

\* the guard of the fill loop
NeedsFill(chars, len) == Len(chars) < len

----------------------------------------------------------------------------
\* The random source.  sysrand.choice(seq) may return any element of seq and
\* sysrand.shuffle any permutation.  The outcomes of choice that are explored
\* are those selecting a representative character: the first ambiguous and the
\* first non-ambiguous character of each class alphabet.

Representatives(s) ==
    LET amb == SelectSeq(s, LAMBDA ch : ch \in AmbiguousChars)
        plain == SelectSeq(s, LAMBDA ch : ch \notin AmbiguousChars)
    IN  (IF amb = <<>> THEN {} ELSE {amb[1]})
        \cup (IF plain = <<>> THEN {} ELSE {plain[1]})

Explored == UNION {Representatives(alphabets[c]) : c \in Range(Classes)}

\* sysrand.choice(seq): the one-character strings it may return
choice(seq) ==
    LET explored == Explored
    IN  {<<seq[i]>> : i \in {j \in 1..Len(seq) : seq[j] \in explored}}

\* Variant of shuffle that draws each position anew from the list
\* (sampling with replacement).
shuffle_resample(chars) == [1..Len(chars) -> Range(chars)]

\* sysrand.shuffle(chars): the orders it may leave the list in
shuffle(chars) ==
    {[i \in 1..Len(chars) |-> chars[p[i]]] : p \in Permutations(1..Len(chars))}

----------------------------------------------------------------------------
\* generate_password, one action per step

EmptyFrame ==
    /\ pools = <<>>
    /\ pool_all = <<>>
    /\ password_chars = <<>>
    /\ k = 1
    /\ guaranteed = 0
    /\ draws = 0
    /\ pool_built = FALSE
    /\ err = ""
    /\ ret = <<>>

\* if length < 4: raise ValueError(...)
CheckLength ==
    /\ pc = "check_length"
    /\ IF TooShort(length)
       THEN /\ err' = ERR_LENGTH
            /\ pc' = "raise"
       ELSE /\ err' = err
            /\ pc' = "build_pool"
    /\ UNCHANGED <<alphabets, num, config, mainvars, pools, pool_all,
                   password_chars, k, guaranteed, draws, pool_built, ret>>

\* pools, pool_all = build_pool(...)
BuildPool ==
    /\ pc = "build_pool"
    /\ LET r == build_pool(alphabets, use_lower, use_upper, use_digits,
                           use_symbols, no_ambiguous)
       IN  /\ pool_built' = TRUE
           /\ err' = r.err
           /\ pools' = r.pools
           /\ pool_all' = r.merged
           /\ pc' = IF r.err = "" THEN "pick" ELSE "raise"
    /\ UNCHANGED <<alphabets, num, config, mainvars, password_chars, k,
                   guaranteed, draws, ret>>

\* one iteration of "for p in pools", or the end of the loop
Pick ==
    /\ pc = "pick"
    /\ IF k <= Len(pools)
       THEN /\ LET candidates == Candidates(pools[k], no_ambiguous)
               IN  IF candidates = <<>>
                   THEN UNCHANGED <<password_chars, draws>>
                   ELSE /\ \E ch \in choice(candidates) :
                              password_chars' = Append(password_chars, ch)
                        /\ draws' = draws + 1
            /\ k' = k + 1
            /\ UNCHANGED <<pc, guaranteed>>
       ELSE /\ guaranteed' = Len(password_chars)
            /\ pc' = "fill"
            /\ UNCHANGED <<password_chars, draws, k>>
    /\ UNCHANGED <<alphabets, num, config, mainvars, pools, pool_all,
                   pool_built, err, ret>>

\* one iteration of "while len(password_chars) < length", or its end
Fill ==
    /\ pc = "fill"
    /\ IF NeedsFill(password_chars, length)
       THEN /\ \E ch \in choice(pool_all) :
                  password_chars' = Append(password_chars, ch)
            /\ draws' = draws + 1
            /\ UNCHANGED pc
       ELSE /\ pc' = "shuffle"
            /\ UNCHANGED <<password_chars, draws>>
    /\ UNCHANGED <<alphabets, num, config, mainvars, pools, pool_all, k,
                   guaranteed, pool_built, err, ret>>

\* sysrand.shuffle(password_chars); return "".join(password_chars)
Shuffle ==
    /\ pc = "shuffle"
    /\ \E s \in shuffle(password_chars) :
          /\ password_chars' = s
          /\ ret' = Join(s)
    /\ pc' = "return"
    /\ UNCHANGED <<alphabets, num, config, mainvars, pools, pool_all, k,
                   guaranteed, draws, pool_built, err>>

----------------------------------------------------------------------------
\* main

\* Variant of Iterations without the clamp: range(args.num).
Iterations_noclamp(n) == IF n > 0 THEN n ELSE 0

\* range(max(1, args.num))
Iterations(n) == IF n > 1 THEN n ELSE 1

ResetFrame ==
    /\ pools' = <<>>
    /\ pool_all' = <<>>
    /\ password_chars' = <<>>
    /\ k' = 1
    /\ guaranteed' = 0
    /\ draws' = 0
    /\ pool_built' = FALSE
    /\ err' = ""
    /\ ret' = <<>>

\* the for loop calls generate_password(...)
MainCall ==
    /\ mpc = "batch"
    /\ pc = "idle"
    /\ calls < Iterations(num)
    /\ calls' = calls + 1
    /\ pc' = "check_length"
    /\ UNCHANGED <<alphabets, num, config, mpc, printed, stderr, fallbacks,
                   exit_code, frame>>

\* print(generate_password(...)) inside the for loop
MainPrint ==
    /\ mpc = "batch"
    /\ pc = "return"
    /\ printed' = printed + 1
    /\ pc' = "idle"
    /\ ResetFrame
    /\ UNCHANGED <<alphabets, num, config, mpc, calls, stderr, fallbacks,
                   exit_code>>

\* the for loop is exhausted: main returns
MainEnd ==
    /\ mpc = "batch"
    /\ pc = "idle"
    /\ calls >= Iterations(num)
    /\ mpc' = "done"
    /\ exit_code' = 0
    /\ UNCHANGED <<alphabets, num, config, calls, printed, stderr, fallbacks,
                   pc, frame>>

\* except ValueError as e: the two messages on standard error
MainExcept ==
    /\ mpc = "batch"
    /\ pc = "raise"
    /\ stderr' = stderr \o <<[kind |-> "Error", msg |-> err],
                             [kind |-> "Interactive mode", msg |-> ""]>>
    /\ fallbacks' = fallbacks + 1
    /\ mpc' = "fallback"
    /\ pc' = "idle"
    /\ ResetFrame
    /\ UNCHANGED <<alphabets, num, config, calls, printed, exit_code>>

\* the six prompts are answered and generate_password is called with the
\* answers: len is int(...) of the first answer; lo, up, di, sy tell whether
\* the answer to a prompt differs from "n", am whether the last one is "y"
FallbackInput ==
    /\ mpc = "fallback"
    /\ \E len \in (-1)..MaxLength, lo, up, di, sy, am \in BOOLEAN :
          /\ length' = len
          /\ use_lower' = lo
          /\ use_upper' = up
          /\ use_digits' = di
          /\ use_symbols' = sy
          /\ no_ambiguous' = am
    /\ mpc' = "fallback_call"
    /\ pc' = "check_length"
    /\ UNCHANGED <<alphabets, num, calls, printed, stderr, fallbacks,
                   exit_code, frame>>

\* int(...) or input(...) raises: except Exception, message, sys.exit(1)
FallbackInputFails ==
    /\ mpc = "fallback"
    /\ stderr' = Append(stderr, [kind |-> "Still couldn't", msg |-> "input"])
    /\ exit_code' = 1
    /\ mpc' = "done"
    /\ UNCHANGED <<alphabets, num, config, calls, printed, fallbacks, pc, frame>>

\* print(generate_password(...)) of the fallback: main returns
FallbackPrint ==
    /\ mpc = "fallback_call"
    /\ pc = "return"
    /\ printed' = printed + 1
    /\ pc' = "idle"
    /\ ResetFrame
    /\ mpc' = "done"
    /\ exit_code' = 0
    /\ UNCHANGED <<alphabets, num, config, calls, stderr, fallbacks>>

\* Variant of FallbackExcept without sys.exit(1): main returns normally.
FallbackExcept_noexit ==
    /\ mpc = "fallback_call"
    /\ pc = "raise"
    /\ stderr' = Append(stderr, [kind |-> "Still couldn't", msg |-> err])
    /\ exit_code' = 0
    /\ mpc' = "done"
    /\ pc' = "idle"
    /\ ResetFrame
    /\ UNCHANGED <<alphabets, num, config, calls, printed, fallbacks>>

\* generate_password raises in the fallback: except Exception, sys.exit(1)
FallbackExcept ==
    /\ mpc = "fallback_call"
    /\ pc = "raise"
    /\ stderr' = Append(stderr, [kind |-> "Still couldn't", msg |-> err])
    /\ exit_code' = 1
    /\ mpc' = "done"
    /\ pc' = "idle"
    /\ ResetFrame
    /\ UNCHANGED <<alphabets, num, config, calls, printed, fallbacks>>

----------------------------------------------------------------------------
\* Specifications

InitRun ==
    /\ num \in (-1)..MaxNum
    /\ length \in (-1)..MaxLength
    /\ use_lower \in BOOLEAN
    /\ use_upper \in BOOLEAN
    /\ use_digits \in BOOLEAN
    /\ use_symbols \in BOOLEAN
    /\ no_ambiguous \in BOOLEAN
    /\ mpc = "batch"
    /\ calls = 0
    /\ printed = 0
    /\ stderr = <<>>
    /\ fallbacks = 0
    /\ exit_code = -1
    /\ pc = "idle"
    /\ EmptyFrame

Init ==
    /\ alphabets = ShippedAlphabets
    /\ InitRun

Next ==
    \/ MainCall
    \/ CheckLength
    \/ BuildPool
    \/ Pick
    \/ Fill
    \/ Shuffle
    \/ MainPrint
    \/ MainEnd
    \/ MainExcept
    \/ FallbackInput
    \/ FallbackInputFails
    \/ FallbackPrint
    \/ FallbackExcept

Spec == Init /\ [][Next]_vars

\* Runs in which the class alphabets are replaced, class by class, by a
\* constructed alphabet made of ambiguous characters only.
PathologicalAlphabets ==
    [lower |-> <<"l">>, upper |-> <<"I", "O">>,
     digits |-> <<"0", "1">>, symbols |-> <<"|", "~">>]

ConstructedAlphabets ==
    {[lower |-> lo, upper |-> up, digits |-> di, symbols |-> sy] :
        lo \in {ShippedAlphabets.lower, PathologicalAlphabets.lower},
        up \in {ShippedAlphabets.upper, PathologicalAlphabets.upper},
        di \in {ShippedAlphabets.digits, PathologicalAlphabets.digits},
        sy \in {ShippedAlphabets.symbols, PathologicalAlphabets.symbols}}

\* a run asked for one password
InitPool ==
    /\ alphabets \in ConstructedAlphabets
    /\ InitRun
    /\ num = 1

SpecPool == InitPool /\ [][Next]_vars

----------------------------------------------------------------------------
\* Vocabulary of the properties

Selected(c) ==
    CASE c = "lower" -> use_lower
      [] c = "upper" -> use_upper
      [] c = "digits" -> use_digits
      [] c = "symbols" -> use_symbols

SelectedClasses == {c \in Range(Classes) : Selected(c)}

\* the characters of class c that the configuration admits
Admitted(c) ==
    {ch \in Range(alphabets[c]) : no_ambiguous => ch \notin AmbiguousChars}

AdmittedChars == UNION {Admitted(c) : c \in SelectedClasses}

\* the selected classes, in the order of their pools
SelectedSeq == SelectSeq(Classes, Selected)

PastValidation == pc \in {"pick", "fill", "shuffle", "return"}

----------------------------------------------------------------------------
\* C1: with length >= 4 and at least one class selected, generate_password
\* does not raise and the string it returns has exactly `length` characters.
C1_ExactLength ==
    (length >= 4 /\ SelectedClasses # {}) =>
        /\ pc # "raise"
        /\ pc = "return" => Len(ret) = length

C1_Witness ==
    /\ pc = "return"
    /\ length = 4
    /\ Len(ret) = 4
    /\ guaranteed = 2
    /\ no_ambiguous

\* C2: the returned password contains at least one character of every
\* selected class whose alphabet admits a character under the configuration;
\* the pick made for a pool may be any admitted character of its class and
\* nothing else.
C2_Coverage ==
    /\ (pc = "pick" /\ k <= Len(pools)) =>
          Range(Candidates(pools[k], no_ambiguous)) = Admitted(SelectedSeq[k])
    /\ pc = "return" =>
          \A c \in SelectedClasses :
              Admitted(c) # {} => Range(ret) \cap Admitted(c) # {}

C2_Witness ==
    /\ pc = "return"
    /\ SelectedClasses = Range(Classes)
    /\ no_ambiguous
    /\ \A c \in Range(Classes) : Range(ret) \cap Admitted(c) # {}

\* C3: every character of the buffer and of the returned password belongs to
\* the alphabet of a selected class and, with no_ambiguous, is not ambiguous;
\* so does every character a pick or a fill step may draw.
C3_Membership ==
    /\ pc \in {"pick", "fill"} =>
          /\ Range(pool_all) \subseteq AdmittedChars
          /\ \A j \in 1..Len(pools) :
                Range(Candidates(pools[j], no_ambiguous)) \subseteq AdmittedChars
    /\ \A i \in 1..Len(password_chars) : Len(password_chars[i]) = 1
    /\ {password_chars[i][1] : i \in 1..Len(password_chars)} \subseteq AdmittedChars
    /\ Range(ret) \subseteq AdmittedChars

C3_Witness ==
    /\ pc = "return"
    /\ no_ambiguous
    /\ use_lower /\ use_upper /\ ~use_digits /\ ~use_symbols
    /\ guaranteed < Len(ret)
    /\ Range(ret) \cap AmbiguousChars = {}

\* C4 as stated: with no class selected, whatever the length, the call fails
\* with the "Select at least one character set" error.
C4_AnyLength ==
    SelectedClasses = {} =>
        /\ ~PastValidation
        /\ pc = "raise" => err = ERR_SELECT

\* C4 as amended: with no class selected and length >= 4 the call fails with
\* the "Select at least one character set" error and returns no password;
\* with length < 4 it fails with the length error instead.
C4_EmptySelection ==
    SelectedClasses = {} =>
        /\ ~PastValidation
        /\ pc = "raise" => err = (IF length >= 4 THEN ERR_SELECT ELSE ERR_LENGTH)

C4_Witness ==
    /\ SelectedClasses = {}
    /\ length >= 4
    /\ no_ambiguous
    /\ pc = "raise"
    /\ err = ERR_SELECT

\* C5: with length < 4 the call fails with the length error before any pool
\* is built or any character drawn; with length >= 4 that error is not raised.
C5_LengthTooShort ==
    /\ length < 4 =>
          /\ pc \notin {"build_pool", "pick", "fill", "shuffle", "return"}
          /\ ~pool_built
          /\ draws = 0
          /\ password_chars = <<>>
          /\ pc = "raise" => err = ERR_LENGTH
    /\ length >= 4 => err # ERR_LENGTH

C5_Witness ==
    /\ pc = "raise"
    /\ length = 3
    /\ err = ERR_LENGTH
    /\ SelectedClasses = Range(Classes)

\* C6: when no_ambiguous is set, a class is selected and every character of
\* the selected alphabets is ambiguous, build_pool raises the "pool became
\* empty" error and no password is returned; without no_ambiguous that error
\* is never raised, whatever the alphabets are.
C6_EmptyAfterFiltering ==
    /\ (no_ambiguous /\ SelectedClasses # {} /\ AdmittedChars = {}) =>
          /\ ~PastValidation
          /\ pool_built => (pc = "raise" /\ err = ERR_EMPTY)
    /\ ~no_ambiguous => err # ERR_EMPTY

C6_Witness ==
    /\ pc = "raise"
    /\ err = ERR_EMPTY
    /\ no_ambiguous
    /\ SelectedClasses = {"digits", "symbols"}
    /\ AdmittedChars = {}

\* C7: after the guaranteed-inclusion loop the buffer holds at most 4 and at
\* most `length` characters, the buffer never exceeds `length`, and the fill
\* loop appends exactly `length` minus that count.
C7_NoOverrun ==
    /\ Len(password_chars) <= length \/ password_chars = <<>>
    /\ pc = "pick" => Len(password_chars) <= 4
    /\ pc \in {"fill", "shuffle", "return"} =>
          /\ guaranteed <= 4
          /\ guaranteed <= length
    /\ pc \in {"shuffle", "return"} =>
          /\ draws - guaranteed = length - guaranteed
          /\ Len(password_chars) = length

C7_Witness ==
    /\ pc = "fill"
    /\ length = 4
    /\ guaranteed = 4
    /\ Len(password_chars) = 4

\* C8: with the shipped alphabets every class alphabet keeps a character
\* after the ambiguous ones are removed, so no selected class is skipped by
\* the guaranteed-inclusion loop, the merged pool is non-empty once built,
\* and the "pool became empty" error is never raised.
C8_NeverEmpty ==
    /\ \A c \in Range(Classes) : RemoveAmbiguous(alphabets[c]) # <<>>
    /\ err # ERR_EMPTY
    /\ pc \in {"fill", "shuffle", "return"} =>
          guaranteed = Cardinality(SelectedClasses)
    /\ PastValidation => pool_all # <<>>

C8_Witness ==
    /\ pc = "fill"
    /\ no_ambiguous
    /\ SelectedClasses = {"digits", "symbols"}
    /\ guaranteed = 2

\* C9 as stated: a successful batch run with num >= 0 calls generate_password
\* and prints a password exactly num times.
C9_ExactlyNum ==
    (mpc = "done" /\ fallbacks = 0 /\ num >= 0) =>
        (calls = num /\ printed = num)

\* C9 as amended: a successful batch run calls generate_password and prints a
\* password exactly max(1, num) times: num times for num >= 1, once otherwise.
C9_AtLeastOne ==
    /\ printed <= calls
    /\ (mpc = "done" /\ fallbacks = 0) =>
          /\ calls = (IF num >= 1 THEN num ELSE 1)
          /\ printed = calls

C9_Witness ==
    /\ mpc = "done"
    /\ fallbacks = 0
    /\ num = 2
    /\ printed = 2

\* C10: the fallback is entered at most once, and only after the error
\* message, on the first call and with nothing printed; the process exits
\* with status 1 exactly when the fallback attempt fails too.
C10_Fallback ==
    /\ fallbacks <= 1
    /\ mpc \in {"fallback", "fallback_call"} => (fallbacks = 1 /\ printed = 0)
    /\ fallbacks = 0 => stderr = <<>>
    /\ fallbacks = 1 =>
          /\ calls = 1
          /\ Len(stderr) >= 2
          /\ stderr[1].kind = "Error"
          /\ stderr[1].msg \in {ERR_LENGTH, ERR_SELECT, ERR_EMPTY}
          /\ stderr[2].kind = "Interactive mode"
    /\ (mpc = "batch" /\ printed >= 1) => pc # "raise"
    /\ mpc # "done" => exit_code = -1
    /\ mpc = "done" =>
          /\ exit_code \in {0, 1}
          /\ exit_code = 1 <=>
                (fallbacks = 1 /\ Len(stderr) = 3
                 /\ stderr[3].kind = "Still couldn't")
          /\ exit_code = 0 => (Len(stderr) \in {0, 2} /\ printed >= 1)
          /\ exit_code = 1 => printed = 0

C10_Witness ==
    /\ mpc = "done"
    /\ exit_code = 1
    /\ fallbacks = 1
    /\ stderr[1].msg = ERR_SELECT
    /\ stderr[3].msg = ERR_LENGTH

====
